---- MODULE Spec2Model ----
(***************************************************************************)
(* Model of the Christmas-Scam presentation: the EndingScene cinematic     *)
(* timeline (src/src/components/EndingScene.tsx), the counter client       *)
(* useScamStats (src/src/components/MagicalSurprise.tsx) and the timers    *)
(* of SplashScreen, SantaSleigh and BackgroundSanta.                       *)
(***************************************************************************)
EXTENDS Integers, Naturals, Sequences, FiniteSets, TLC

(***************************************************************************)
(* Bounds of the model (not program constants).                            *)
(***************************************************************************)
MaxRenders == 1
MaxDownloads == 2
MaxLate == 1
MaxClicks == 2
MaxPending == 1
MaxRestarts == 2

(***************************************************************************)
(* IEEE-754 double arithmetic for the clock.  currentTime is a JavaScript  *)
(* number and `prev + 0.1` is a rounded double addition, so the clock is   *)
(* modelled exactly: a double x with 0 <= x < 128 is the integer x * 2^55, *)
(* kept as three limbs <<a, b, c>> of 20 bits (x * 2^55 = a*2^40 + b*2^20  *)
(* + c), and every sum or difference is rounded to 53 significant bits,    *)
(* ties to even.                                                           *)
(***************************************************************************)
LimbBase == 2^20

Norm(a, b, c) ==
    LET b1 == b + (c \div LimbBase)
    IN  << a + (b1 \div LimbBase), b1 % LimbBase, c % LimbBase >>

\* number of low bits a value with top limb a loses when kept in 53 bits
RoundBits(a) ==
    IF a < 2^13 THEN 0
    ELSE IF a < 2^14 THEN 1
    ELSE IF a < 2^15 THEN 2
    ELSE IF a < 2^16 THEN 3
    ELSE IF a < 2^17 THEN 4
    ELSE IF a < 2^18 THEN 5
    ELSE IF a < 2^19 THEN 6
    ELSE IF a < 2^20 THEN 7
    ELSE IF a < 2^21 THEN 8
    ELSE IF a < 2^22 THEN 9
    ELSE 10

\* round-to-nearest, ties-to-even, of an exact value to a double
RoundTo(v, p) ==
    LET q == v[3] \div p
        r == v[3] % p
        up == (2 * r > p) \/ (2 * r = p /\ q % 2 = 1)
    IN  Norm(v[1], v[2], IF up THEN (q + 1) * p ELSE q * p)

\* The singleton set binds the exact sum once, before it is rounded.
DRound(x) == CHOOSE r \in { RoundTo(v, 2^RoundBits(v[1])) : v \in { x } } : TRUE

DLess(x, y) ==
    \/ x[1] < y[1]
    \/ x[1] = y[1] /\ x[2] < y[2]
    \/ x[1] = y[1] /\ x[2] = y[2] /\ x[3] < y[3]

DLeq(x, y) == ~DLess(y, x)

\* x + y kept in a counter that wraps around at 4
DAddWrapping(x, y) ==
    LET sum == DRound(Norm(x[1] + y[1], x[2] + y[2], x[3] + y[3]))
    IN  << sum[1] % (4 * 2^15), sum[2], sum[3] >>

\* x + y on doubles
DAdd(x, y) == DRound(Norm(x[1] + y[1], x[2] + y[2], x[3] + y[3]))

\* Math.abs(x - y) on doubles
DAbsDiff(x, y) ==
    LET hi == IF DLess(x, y) THEN y ELSE x
        lo == IF DLess(x, y) THEN x ELSE y
        c0 == hi[3] - lo[3]
        bc == IF c0 < 0 THEN 1 ELSE 0
        b0 == hi[2] - lo[2] - bc
        bb == IF b0 < 0 THEN 1 ELSE 0
    IN  DRound(<< hi[1] - lo[1] - bb, b0 + bb * LimbBase, c0 + bc * LimbBase >>)

\* the double of an integer literal n, 0 <= n < 128
DInt(n) == << n * 2^15, 0, 0 >>

\* the double literal 0.1 = 3602879701896397 * 2^-55
Tenth == << 3276, 838860, 838861 >>

\* the double literal 0.05 is 3602879701896397 * 2^-56, half a unit above
\* 1801439850948198 * 2^-55: a value d of the grid has d < 0.05 exactly
\* when d <= ToleranceFloor.
ToleranceFloor == << 1638, 419430, 419430 >>

(***************************************************************************)
(* The EndingScene timeline tables.                                        *)
(***************************************************************************)
\* the glitch offsets 0.5 and 4.0
glitchTimes == << << 16384, 0, 0 >>, << 131072, 0, 0 >> >>

textRevealTimes == <<
    << 3276, 838860, 838861 >>,      \* 0.1
    << 163840, 0, 0 >>,              \* 5.0
    << 327680, 0, 0 >>,              \* 10.0
    << 344064, 0, 0 >>,              \* 10.5
    << 491520, 0, 0 >>,              \* 15.0
    << 507904, 0, 0 >>,              \* 15.5
    << 655360, 0, 0 >>,              \* 20.0
    << 704512, 0, 0 >>,              \* 21.5
    << 851968, 0, 0 >>,              \* 26.0
    << 901120, 0, 0 >>,              \* 27.5
    << 1055129, 629145, 629248 >>,   \* 32.2
    << 1097728, 0, 0 >>,             \* 33.5
    << 1140326, 419430, 419328 >>,   \* 34.8
    << 1179648, 0, 0 >>,             \* 36.0
    << 1251737, 629145, 629248 >>,   \* 38.2
    << 1294336, 0, 0 >>,             \* 39.5
    << 1336934, 419430, 419328 >>,   \* 40.8
    << 1376256, 0, 0 >>,             \* 42.0
    << 1441792, 0, 0 >>,             \* 44.0
    << 1474560, 0, 0 >>,             \* 45.0
    << 1638400, 0, 0 >>,             \* 50.0
    << 1671168, 0, 0 >>,             \* 51.0
    << 1835008, 0, 0 >>,             \* 56.0
    << 1884160, 0, 0 >>,             \* 57.5
    << 1916928, 0, 0 >>,             \* 58.5
    << 1998848, 0, 0 >>,             \* 61.0
    << 2048000, 0, 0 >>,             \* 62.5
    << 2080768, 0, 0 >>,             \* 63.5
    << 2162688, 0, 0 >>,             \* 66.0
    << 2211840, 0, 0 >>,             \* 67.5
    << 2326528, 0, 0 >>,             \* 71.0
    << 2375680, 0, 0 >>,             \* 72.5
    << 2506752, 0, 0 >>,             \* 76.5
    << 2572288, 0, 0 >>,             \* 78.5
    << 2736128, 0, 0 >>,             \* 83.5
    << 2801664, 0, 0 >>              \* 85.5
>>

\* the sound cues of a run: the glitch cues, then the text-reveal cues
GlitchCues == 1 .. Len(glitchTimes)
TextCues == (Len(glitchTimes) + 1) .. (Len(glitchTimes) + Len(textRevealTimes))
Cues == GlitchCues \cup TextCues
CueOffset(i) ==
    IF i \in GlitchCues THEN glitchTimes[i] ELSE textRevealTimes[i - Len(glitchTimes)]

\* the stage windows isTime(start, end) of the render, in seconds
StageWindowsOverlap == <<
    <<0, 5>>, <<4, 10>>, <<10, 15>>, <<15, 20>>, <<20, 26>>, <<26, 32>>,
    <<32, 38>>, <<38, 44>>, <<44, 50>>, <<50, 56>>, <<56, 61>>, <<61, 66>>,
    <<66, 71>>, <<71, 76>>, <<76, 83>>, <<83, 90>> >>

StageWindows == <<
    <<0, 5>>, <<5, 10>>, <<10, 15>>, <<15, 20>>, <<20, 26>>, <<26, 32>>,
    <<32, 38>>, <<38, 44>>, <<44, 50>>, <<50, 56>>, <<56, 61>>, <<61, 66>>,
    <<66, 71>>, <<71, 76>>, <<76, 83>>, <<83, 90>> >>

\* the end of the sequence, `currentTime >= 92`
TotalDuration == 92

(***************************************************************************)
(* State.                                                                  *)
(***************************************************************************)
VARIABLES
    \* EndingScene
    esMounted,        \* the EndingScene component is mounted
    status,           \* useState 'idle' | 'playing' | 'finished' | 'sendoff' | 'sendoff2'
    currentTime,      \* useState(0), a double
    interval,         \* number of live setInterval timers that advance currentTime
    timeout,          \* the pending send-off setTimeout: "none", "sendoff2", "restart"
    glitchAudio,      \* glitchAudioRef.current: "null", "paused", "playing"
    errorGlitch,      \* errorGlitchRef.current: "null", "paused", "playing"
    endingBg,         \* endingBgRef.current: "null", "paused", "playing"
    bgMusic,          \* the App's bgMusicRef.current: "paused", "playing"
    musicStarted,     \* the App's useState(false)
    downloads,        \* handleDownload calls awaiting html2canvas
    reloaded,         \* onRestart ran: window.location.reload()
    \* history of the run
    fired,            \* per sound cue, the number of play() invocations
    finishedCount,    \* number of transitions to 'finished'
    startClicks,      \* clicks aimed at the "See The Truth" button
    renders,          \* re-renders caused by the parent
    lateCallbacks,    \* timer callbacks run after their component unmounted
    resolved,         \* some play() made by the EndingScene has resolved
    ticks,            \* the interval callbacks the mounted EndingScene has run
    \* useScamStats
    visits,           \* useState(0): the displayed visits value, a JavaScript value
    victims,          \* useState(0): the displayed victims value
    pending,          \* per counter call, the number of calls awaiting their response
    rejected,         \* calls whose promise rejected to the caller
    lastCall,         \* the call that completed last and the response it got
    \* App
    appMounted,       \* the App (and the Canvas with its children) is mounted
    showSplash,       \* useState(true)
    deliveryStarted,  \* useState(false)
    boxDropped,       \* useState(false)
    extraGifts,       \* useState(false)
    isMobile,         \* useState(false)
    \* the main GiftBox
    isOpen,           \* useState(false)
    hasPlayed,        \* hasPlayedRef.current
    \* SplashScreen
    started,          \* useState(false)
    scene,            \* useState(1)
    countdown,        \* useState(5)
    spinFinished,     \* useState(false)
    sceneTimers,      \* the pending setTimeout timers of the scene effect
    elapsed,          \* seconds since the scene effect armed its timers
    cdInterval,       \* the countdown setInterval is live
    cdElapsed,        \* seconds since the countdown interval was set or ticked
    \* SantaSleigh and BackgroundSanta
    dropTimer,        \* the 2 s drop setTimeout is pending
    active,           \* BackgroundSanta useState(false)
    flyInterval,      \* the 15 s fly-by setInterval is live
    \* the timeline engine of EndingScene run on a scenario's stages and trigger
    scDurations,      \* the stage durations, in seconds
    scTrigger,        \* the offset of the one trigger, a double
    scClock,          \* the clock, a double
    scFired,          \* the number of times the trigger has fired
    scStatus,         \* "idle", "playing", "finished"
    \* isTime applied to a given clock
    probeClock,       \* the clock value, a double
    probeDone,        \* the render with that clock has been made
    probeStages,      \* the stage windows that render shows
    \* the send-off timeline of the EndingScene that counts sendoffTime
    vStatus,          \* its status: "idle", "finished", "sendoff"
    sendoffTime,      \* useState(0), a double
    vInterval,        \* number of live setInterval timers that advance sendoffTime
    restartCalls,     \* the number of times onRestart has been invoked
    vRenders,         \* re-renders by the parent with a new onRestart
    vUnloaded         \* the reload asked for by onRestart has torn the page down

endingVars == << esMounted, status, currentTime, interval, timeout, glitchAudio,
                 errorGlitch, endingBg, bgMusic, musicStarted, downloads, reloaded, fired,
                 finishedCount, startClicks, renders, lateCallbacks, resolved, ticks >>

counterVars == << visits, victims, pending, rejected, lastCall >>

appVars == << appMounted, showSplash, deliveryStarted, boxDropped, extraGifts, isMobile,
             isOpen, hasPlayed >>

splashVars == << started, scene, countdown, spinFinished, sceneTimers, elapsed,
                cdInterval, cdElapsed >>

sleighVars == << dropTimer, active, flyInterval >>

scenarioVars == << scDurations, scTrigger, scClock, scFired, scStatus >>

\* the state of the engine runs made outside the page
probeVars == << probeClock, probeDone, probeStages >>

sendoffVars == << vStatus, sendoffTime, vInterval, restartCalls, vRenders, vUnloaded >>

engineVars == << scenarioVars, probeVars, sendoffVars >>

outsideEnding == << counterVars, appVars, splashVars, sleighVars, engineVars >>

outsideCounter == << endingVars, appVars, splashVars, sleighVars, engineVars >>

outsidePage == << engineVars >>

vars == << endingVars, counterVars, appVars, splashVars, sleighVars, engineVars >>

(***************************************************************************)
(* EndingScene: helpers.                                                   *)
(***************************************************************************)
\* const isTime = (start, end) => currentTime >= start && currentTime < end
\* a window that also holds its end
InWindowInclusive(ct, start, end) == DLeq(DInt(start), ct) /\ DLeq(ct, DInt(end))

InWindow(ct, start, end) == DLeq(DInt(start), ct) /\ DLess(ct, DInt(end))

isTime(start, end) == InWindow(currentTime, start, end)

\* the stage windows that are rendered for the current clock
ActiveStages ==
    { i \in 1 .. Len(StageWindows) : isTime(StageWindows[i][1], StageWindows[i][2]) }

\* Math.abs(currentTime - t) < 0.05
NearWide(ct, t) == DLess(DAbsDiff(ct, t), << 16384, 0, 0 >>)

\* Two doubles less than 0.05 apart have top limbs less than 1640 apart, so
\* the first conjunct follows from the second; it spares the subtraction for
\* the offsets that are far from the clock.
Near(ct, t) ==
    /\ ct[1] - t[1] \in -1640 .. 1640
    /\ DLeq(DAbsDiff(ct, t), ToleranceFloor)

\* currentTime >= 92
SequenceEnded(ct) == DLeq(DInt(TotalDuration), ct)

\* the guard of the timeline effect: if (status !== 'playing') return
TimelineAlwaysActive(st) == TRUE

TimelineActive(st) == st = "playing"

\* {status === 'idle' && <button onClick={startEnding}>}
StartButtonAlways == TRUE

StartButtonRendered == status = "idle"

\* clearInterval(interval) on a count of live intervals
IntervalsLeaked(n) == n

IntervalsAfterClear(n) == IF n > 0 THEN n - 1 ELSE 0

\* audio.play(): resolves (ok) or is rejected by the autoplay policy
Play(a, ok) == IF a = "null" THEN "null" ELSE IF ok THEN "playing" ELSE a

\* audioRef.current?.pause()
Pause(a) == IF a = "null" THEN "null" ELSE "paused"

\* the timer armed by the send-off effect for a status
SendoffTimer(st) ==
    IF st = "sendoff" THEN "sendoff2"
    ELSE IF st = "sendoff2" THEN "restart"
    ELSE "none"

\* the cues whose offset the clock ct is near: the tests of the timeline
\* effect, `Math.abs(currentTime - t) < 0.05`, over every offset
CueHits(ct) == { i \in Cues : Near(ct, CueOffset(i)) }

\* the outcomes a play() can have when one is made
\* a play() whose failure would take the effect down with it
PlayOutcomesBlocking(made) == IF made THEN {} ELSE {TRUE}

PlayOutcomes(made) == IF made THEN BOOLEAN ELSE {TRUE}

\* The timeline useEffect, run after a render in which status or currentTime
\* changed: cleanup of the previous run, then the body.  n is the number of
\* live intervals, fr the play counts, g and e the glitch and error-glitch
\* elements, hits the cues the clock is near, gOk and eOk whether a play()
\* made now is allowed.
TimelineEffect(st, ct, n, fr, g, e, hits, gOk, eOk) ==
    LET n0 == IntervalsAfterClear(n)
        gHit == hits \cap GlitchCues
        tHit == hits \cap TextCues
        gPlays == IF g = "null" THEN {} ELSE gHit
        tPlays == IF e = "null" THEN {} ELSE tHit
        fr1 == IF gPlays \cup tPlays = {} THEN fr
               ELSE [ i \in Cues |-> IF i \in gPlays \cup tPlays THEN fr[i] + 1 ELSE fr[i] ]
        g1 == IF gHit # {} THEN Play(g, gOk) ELSE g
        e1 == IF tHit # {} THEN Play(e, eOk) ELSE e
        ok == (gPlays # {} /\ gOk) \/ (tPlays # {} /\ eOk)
    IN  IF ~TimelineActive(st)
        THEN [ status |-> st, interval |-> n0, fired |-> fr, glitch |-> g, error |-> e,
               resolved |-> FALSE ]
        ELSE IF SequenceEnded(ct)
        THEN [ status |-> "finished", interval |-> IntervalsAfterClear(n0 + 1),
               fired |-> fr1, glitch |-> g1, error |-> e1, resolved |-> ok ]
        ELSE [ status |-> st, interval |-> n0 + 1,
               fired |-> fr1, glitch |-> g1, error |-> e1, resolved |-> ok ]

\* the state after a render with status st and clock ct and the effects it
\* runs; g and e are the audio elements the refs hold at that render, r0
\* whether a play() has resolved before
RenderedWith(st, ct, g, e, r0) ==
    \E hits \in { CueHits(ct) } :
    \E gOk \in PlayOutcomes(hits \cap GlitchCues # {}),
       eOk \in PlayOutcomes(hits \cap TextCues # {}) :
    \E eff \in { TimelineEffect(st, ct, interval, fired, g, e, hits, gOk, eOk) } :
        /\ status' = eff.status
        /\ currentTime' = ct
        /\ interval' = eff.interval
        /\ fired' = eff.fired
        /\ glitchAudio' = eff.glitch
        /\ errorGlitch' = eff.error
        /\ timeout' = SendoffTimer(eff.status)
        /\ finishedCount' = finishedCount +
               (IF eff.status = "finished" /\ st # "finished" THEN 1 ELSE 0)
        /\ resolved' = (r0 \/ eff.resolved)

Rendered(st, ct) == RenderedWith(st, ct, glitchAudio, errorGlitch, resolved)

\* a SantaSleigh effect without the test `if (start)`
ArmDropTimerUnstarted(start) == TRUE

(***************************************************************************)
(* The App's window click listener.  A click on the page reaches the       *)
(* handler of the element clicked first and the listeners of the window    *)
(* last.                                                                   *)
(***************************************************************************)
\* SantaSleigh effect: if (start) setTimeout(onDrop, 2000)
ArmDropTimer(start) == start

\* a listener that stays installed after the music has started
FallbackListeningForever == appMounted /\ ~showSplash

\* if (!showSplash && !musicStarted) window.addEventListener('click', ...)
FallbackListening == appMounted /\ ~showSplash /\ ~musicStarted

\* onStopBgMusic: bgMusicRef.current.pause()
onStopBgMusic == Pause(bgMusic)

\* handleInteraction, run on a click whose own handler left the App's music
\* as bg: bgMusicRef.current.play().then(() => setMusicStarted(true))
handleInteraction(bg) ==
    IF FallbackListening
    THEN \E ok \in BOOLEAN :
            /\ bgMusic' = Play(bg, ok)
            /\ musicStarted' = ok
    ELSE /\ bgMusic' = bg
         /\ UNCHANGED musicStarted

\* setMusicStarted(true) re-renders the App: onDrop is a new function and the
\* SantaSleigh effect runs again (a mounted EndingScene re-arms the send-off
\* timer it already holds)
DropTimerAfterClick ==
    IF musicStarted' # musicStarted THEN ArmDropTimer(deliveryStarted) ELSE dropTimer

\* what an EndingScene click leaves alone outside the EndingScene
outsideEndingClick == << counterVars, appVars, splashVars, active, flyInterval, engineVars >>

(***************************************************************************)
(* EndingScene: operations.                                                *)
(***************************************************************************)
EndingInit ==
    /\ status = "idle"
    /\ currentTime = DInt(0)
    /\ interval = 0
    /\ timeout = "none"
    /\ glitchAudio = "null"
    /\ errorGlitch = "null"
    /\ endingBg = "null"
    /\ downloads = 0
    /\ reloaded = FALSE
    /\ fired = [ i \in Cues |-> 0 ]
    /\ finishedCount = 0
    /\ startClicks = 0
    /\ renders = 0
    /\ lateCallbacks = 0
    /\ resolved = FALSE
    /\ ticks = 0

\* const startEnding = () => { ... }, and the render that follows; the music
\* onStopBgMusic() pauses is handed on to the window listener by the click
startEnding ==
    /\ \E bgOk \in BOOLEAN :
          /\ endingBg' = Play("paused", bgOk)
          /\ RenderedWith("playing", DInt(0), "paused", "paused", resolved \/ bgOk)
    /\ UNCHANGED ticks

\* a click where the "See The Truth" button is shown while status is idle
ClickSeeTheTruth ==
    /\ ~reloaded /\ esMounted
    /\ startClicks < MaxClicks
    /\ startClicks' = startClicks + 1
    /\ IF StartButtonRendered
       THEN startEnding
       ELSE UNCHANGED << status, currentTime, interval, timeout, glitchAudio, errorGlitch,
                         endingBg, fired, finishedCount, resolved, ticks >>
    /\ handleInteraction(IF StartButtonRendered THEN onStopBgMusic ELSE bgMusic)
    /\ dropTimer' = DropTimerAfterClick
    /\ UNCHANGED << esMounted, downloads, reloaded, renders, lateCallbacks >>
    /\ UNCHANGED outsideEndingClick

\* the setInterval callback setCurrentTime(prev => prev + 0.1), the render it
\* causes and the timeline effect of that render
Tick ==
    /\ ~reloaded
    /\ interval > 0
    /\ IF esMounted
       THEN /\ \E ct \in { DAdd(currentTime, Tenth) } : Rendered(status, ct)
            /\ ticks' = ticks + 1
            /\ UNCHANGED lateCallbacks
       ELSE /\ lateCallbacks < MaxLate
            /\ lateCallbacks' = lateCallbacks + 1
            /\ UNCHANGED << status, currentTime, interval, timeout, glitchAudio,
                            errorGlitch, fired, finishedCount, resolved, ticks >>
    /\ UNCHANGED << esMounted, endingBg, bgMusic, musicStarted, downloads, reloaded, startClicks, renders >>
    /\ UNCHANGED outsideEnding

\* the glitch sound plays to its end
GlitchEnded ==
    /\ ~reloaded
    /\ glitchAudio = "playing"
    /\ glitchAudio' = "paused"
    /\ UNCHANGED << esMounted, status, currentTime, interval, timeout, errorGlitch, endingBg,
                    bgMusic, musicStarted, downloads, reloaded, fired, finishedCount, startClicks,
                    renders, lateCallbacks, resolved, ticks >>
    /\ UNCHANGED outsideEnding

\* the error-glitch sound plays to its end
ErrorGlitchEnded ==
    /\ ~reloaded
    /\ errorGlitch = "playing"
    /\ errorGlitch' = "paused"
    /\ UNCHANGED << esMounted, status, currentTime, interval, timeout, glitchAudio, endingBg,
                    bgMusic, musicStarted, downloads, reloaded, fired, finishedCount, startClicks,
                    renders, lateCallbacks, resolved, ticks >>
    /\ UNCHANGED outsideEnding

\* handleDownload up to `await html2canvas(...)`
DownloadClick ==
    /\ ~reloaded /\ esMounted
    /\ status = "finished"
    /\ downloads < MaxDownloads
    /\ downloads' = downloads + 1
    /\ handleInteraction(bgMusic)
    /\ dropTimer' = DropTimerAfterClick
    /\ UNCHANGED << esMounted, status, currentTime, interval, timeout, glitchAudio,
                    errorGlitch, endingBg, reloaded, fired, finishedCount,
                    startClicks, renders, lateCallbacks, resolved, ticks >>
    /\ UNCHANGED outsideEndingClick

\* handleDownload after the await: setStatus('sendoff'), or html2canvas rejected
DownloadDone ==
    /\ ~reloaded
    /\ downloads > 0
    /\ downloads' = downloads - 1
    /\ \E ok \in BOOLEAN :
          IF ok /\ esMounted
          THEN Rendered("sendoff", currentTime) /\ UNCHANGED ticks
          ELSE UNCHANGED << status, currentTime, interval, timeout, glitchAudio,
                            errorGlitch, fired, finishedCount, resolved, ticks >>
    /\ UNCHANGED << esMounted, endingBg, bgMusic, musicStarted, reloaded, startClicks, renders, lateCallbacks >>
    /\ UNCHANGED outsideEnding

\* the Restart button: onClick={() => setStatus('sendoff')}
RestartClick ==
    /\ ~reloaded /\ esMounted
    /\ status = "finished"
    /\ Rendered("sendoff", currentTime)
    /\ UNCHANGED ticks
    /\ handleInteraction(bgMusic)
    /\ dropTimer' = DropTimerAfterClick
    /\ UNCHANGED << esMounted, endingBg, downloads, reloaded, startClicks,
                    renders, lateCallbacks >>
    /\ UNCHANGED outsideEndingClick

\* setTimeout(() => setStatus('sendoff2'), 10000) fires
SendoffTimeout ==
    /\ ~reloaded
    /\ timeout = "sendoff2"
    /\ IF esMounted
       THEN /\ Rendered("sendoff2", currentTime)
            /\ UNCHANGED << lateCallbacks, ticks >>
       ELSE /\ lateCallbacks < MaxLate
            /\ lateCallbacks' = lateCallbacks + 1
            /\ timeout' = "none"
            /\ UNCHANGED << status, currentTime, interval, glitchAudio, errorGlitch,
                            fired, finishedCount, resolved, ticks >>
    /\ UNCHANGED << esMounted, endingBg, bgMusic, musicStarted, downloads, reloaded, startClicks, renders >>
    /\ UNCHANGED outsideEnding

\* setTimeout(onRestart, 10000) fires: window.location.reload()
RestartTimeout ==
    /\ ~reloaded
    /\ timeout = "restart"
    /\ timeout' = "none"
    /\ reloaded' = TRUE
    /\ lateCallbacks' = IF esMounted THEN lateCallbacks ELSE lateCallbacks + 1
    /\ UNCHANGED << esMounted, status, currentTime, interval, glitchAudio, errorGlitch,
                    endingBg, bgMusic, musicStarted, downloads, fired, finishedCount, startClicks, renders, resolved, ticks >>
    /\ UNCHANGED outsideEnding

\* the parent re-renders and passes new onRestart / onStopBgMusic functions:
\* the send-off effect (deps [status, onRestart]) re-arms its timer, the
\* timeline effect (deps [status, currentTime]) does not run
ParentRerender ==
    /\ ~reloaded /\ esMounted
    /\ renders < MaxRenders
    /\ renders' = renders + 1
    /\ timeout' = SendoffTimer(status)
    /\ UNCHANGED << esMounted, status, currentTime, interval, glitchAudio, errorGlitch,
                    endingBg, bgMusic, musicStarted, downloads, reloaded, fired, finishedCount,
                    startClicks, lateCallbacks, resolved, ticks >>
    /\ UNCHANGED outsideEnding

\* the component unmounts: the cleanups of its three effects run
Unmount ==
    /\ ~reloaded /\ esMounted
    /\ esMounted' = FALSE
    /\ interval' = IntervalsAfterClear(interval)
    /\ timeout' = "none"
    /\ endingBg' = Pause(endingBg)
    /\ errorGlitch' = Pause(errorGlitch)
    /\ UNCHANGED << status, currentTime, glitchAudio, bgMusic, musicStarted, downloads, reloaded, fired,
                    finishedCount, startClicks, renders, lateCallbacks, resolved, ticks >>
    /\ UNCHANGED outsideEnding

EndingNext ==
    \/ ClickSeeTheTruth
    \/ Tick
    \/ GlitchEnded
    \/ ErrorGlitchEnded
    \/ DownloadClick
    \/ DownloadDone
    \/ RestartClick
    \/ SendoffTimeout
    \/ RestartTimeout
    \/ ParentRerender
    \/ Unmount

(***************************************************************************)
(* useScamStats: the counter client.                                       *)
(***************************************************************************)
\* JavaScript values a JSON `count` field can hold.  A string is kept by its
\* length, a boolean as 0 or 1.
Undefined == [ t |-> "undefined", v |-> 0 ]
Null == [ t |-> "null", v |-> 0 ]
Num(n) == [ t |-> "number", v |-> n ]
Str(len) == [ t |-> "string", v |-> len ]
Bool(b) == [ t |-> "boolean", v |-> IF b THEN 1 ELSE 0 ]
Obj == [ t |-> "object", v |-> 0 ]

CountValues ==
    { Undefined, Null, Num(0), Num(7), Num(42), Str(3), Bool(TRUE), Obj }

\* a setter called without the test of `if (data.count)`
TruthyAlways(x) == TRUE

\* JavaScript truthiness: the test of `if (data.count)`
Truthy(x) ==
    CASE x.t = "number" -> x.v # 0
      [] x.t = "string" -> x.v # 0
      [] x.t = "boolean" -> x.v = 1
      [] x.t = "object" -> TRUE
      [] OTHER -> FALSE

\* what a request can be answered with: fetch() rejects, or a response whose
\* body does not parse, parses to null, or parses to an object
Bodies ==
    { [ kind |-> "unparsable", count |-> Undefined ],
      [ kind |-> "null", count |-> Undefined ] }
    \cup { [ kind |-> "object", count |-> c ] : c \in CountValues }

\* the bodies tried with a non-2xx status: an error object without a count
\* and an object that carries a count
ErrorBodies ==
    { [ kind |-> "object", count |-> Undefined ],
      [ kind |-> "object", count |-> Num(7) ] }

\* fetch() rejects: there is no response (http 0)
NetError ==
    [ net |-> "error", http |-> 0, body |-> [ kind |-> "unparsable", count |-> Undefined ] ]

\* fetch() resolves for every HTTP status; res.status is 200 or 500
Responses ==
    { NetError }
    \cup { [ net |-> "ok", http |-> 200, body |-> b ] : b \in Bodies }
    \cup { [ net |-> "ok", http |-> 500, body |-> b ] : b \in ErrorBodies }

\* res.ok: the status is in 200..299 (the calls never read it)
ResOk(r) == r.net = "ok" /\ r.http \in 200 .. 299

\* `await fetch(url)` rejects
FetchThrows(r) == r.net = "error"

\* `await res.json()` rejects
JsonThrows(r) == r.body.kind = "unparsable"

\* reading `data.count` throws a TypeError
CountThrows(r) == r.body.kind = "null"

\* the catch block of the three calls: the error is logged, not rethrown
RejectsUncaught(threw) == threw

Rejects(threw) == FALSE

\* incrementVisit / incrementVictim: the value the counter holds afterwards
\* and whether the try block threw
increment(old, r) ==
    IF FetchThrows(r) \/ JsonThrows(r) \/ CountThrows(r)
    THEN [ value |-> old, threw |-> TRUE ]
    ELSE [ value |-> IF Truthy(r.body.count) THEN r.body.count ELSE old,
           threw |-> FALSE ]

\* fetchStats with the responses rv (visits) and rc (victims)
fetchStats(oldVisits, oldVictims, rv, rc) ==
    IF FetchThrows(rv) \/ FetchThrows(rc) \/ JsonThrows(rv) \/ JsonThrows(rc) \/ CountThrows(rv)
    THEN [ visits |-> oldVisits, victims |-> oldVictims, threw |-> TRUE ]
    ELSE LET v1 == IF Truthy(rv.body.count) THEN rv.body.count ELSE oldVisits
         IN  IF CountThrows(rc)
             THEN [ visits |-> v1, victims |-> oldVictims, threw |-> TRUE ]
             ELSE [ visits |-> v1,
                    victims |-> IF Truthy(rc.body.count) THEN rc.body.count ELSE oldVictims,
                    threw |-> FALSE ]

CounterCalls == { "incrementVisit", "incrementVictim", "fetchStats" }

InFlight == pending["incrementVisit"] + pending["incrementVictim"] + pending["fetchStats"]

CounterInit ==
    /\ visits = Num(0)
    /\ victims = Num(0)
    /\ pending = [ fn \in CounterCalls |-> 0 ]
    /\ rejected = 0
    /\ lastCall = [ fn |-> "none", rv |-> NetError, rc |-> NetError ]

\* a call is made: the request is sent and the caller goes on
Call(fn) ==
    /\ InFlight < MaxPending
    /\ pending' = [ pending EXCEPT ![fn] = @ + 1 ]
    /\ UNCHANGED << visits, victims, rejected, lastCall >>
    /\ UNCHANGED outsideCounter

CallIncrementVisit == Call("incrementVisit")

CallIncrementVictim == Call("incrementVictim")

CallFetchStats == Call("fetchStats")

\* incrementVisit finishes with the response r
CompleteIncrementVisit ==
    /\ pending["incrementVisit"] > 0
    /\ pending' = [ pending EXCEPT !["incrementVisit"] = @ - 1 ]
    /\ \E r \in Responses :
       \E res \in { increment(visits, r) } :
          /\ visits' = res.value
          /\ rejected' = rejected + (IF Rejects(res.threw) THEN 1 ELSE 0)
          /\ lastCall' = [ fn |-> "incrementVisit", rv |-> r, rc |-> r ]
    /\ UNCHANGED victims
    /\ UNCHANGED outsideCounter

\* incrementVictim finishes with the response r
CompleteIncrementVictim ==
    /\ pending["incrementVictim"] > 0
    /\ pending' = [ pending EXCEPT !["incrementVictim"] = @ - 1 ]
    /\ \E r \in Responses :
       \E res \in { increment(victims, r) } :
          /\ victims' = res.value
          /\ rejected' = rejected + (IF Rejects(res.threw) THEN 1 ELSE 0)
          /\ lastCall' = [ fn |-> "incrementVictim", rv |-> r, rc |-> r ]
    /\ UNCHANGED visits
    /\ UNCHANGED outsideCounter

\* fetchStats finishes with the two responses
CompleteFetchStats ==
    /\ pending["fetchStats"] > 0
    /\ pending' = [ pending EXCEPT !["fetchStats"] = @ - 1 ]
    /\ \E rv \in Responses, rc \in Responses :
       \E res \in { fetchStats(visits, victims, rv, rc) } :
          /\ visits' = res.visits
          /\ victims' = res.victims
          /\ rejected' = rejected + (IF Rejects(res.threw) THEN 1 ELSE 0)
          /\ lastCall' = [ fn |-> "fetchStats", rv |-> rv, rc |-> rc ]
    /\ UNCHANGED outsideCounter

CounterNext ==
    \/ CallIncrementVisit
    \/ CallIncrementVictim
    \/ CallFetchStats
    \/ CompleteIncrementVisit
    \/ CompleteIncrementVictim
    \/ CompleteFetchStats

(***************************************************************************)
(* App, SplashScreen, SantaSleigh, BackgroundSanta: the timers of the      *)
(* page around the EndingScene.  Splash time is counted in whole seconds   *)
(* (every delay of the splash is a whole number of seconds); the 2 s drop  *)
(* timeout and the 15 s fly-by interval fire at any moment they are        *)
(* pending.                                                                *)
(***************************************************************************)
SceneTimerNames == { "timer1", "timerGlitch", "timer2", "timer3", "timer4", "timer5" }

\* the delay of each setTimeout of the scene effect, in seconds
Deadline(t) ==
    CASE t = "timer1" -> 5
      [] t = "timerGlitch" -> 8
      [] t = "timer2" -> 11
      [] t = "timer3" -> 15
      [] t = "timer4" -> 20
      [] t = "timer5" -> 20

\* the scene a scene timer switches to
SceneOf(t) ==
    CASE t = "timerGlitch" -> 2
      [] t = "timer2" -> 3
      [] t = "timer3" -> 4
      [] t = "timer4" -> 5

\* a scene effect without the early return `if (!started) return;`
ArmSceneTimersUnstarted(st) == SceneTimerNames

\* a scene effect that sets no release timeout (timer5)
ArmSceneTimersNoRelease(st) == IF st THEN SceneTimerNames \ { "timer5" } ELSE {}

\* the scene effect: if (!started) return; otherwise six timeouts
ArmSceneTimers(st) == IF st THEN SceneTimerNames ELSE {}

\* a cleanup that forgets clearTimeout(timer5)
ClearSceneTimersButLast(ts) == ts \cap { "timer5" }

\* the cleanup of the scene effect: clearTimeout on all six timers
ClearSceneTimers(ts) == {}

SplashMounted == appMounted /\ showSplash

DueTimers == { t \in sceneTimers : Deadline(t) <= elapsed }

\* the countdown interval has a tick due
CountdownDue == cdInterval /\ cdElapsed >= 1

\* setScene(n) and the scene audio effect (deps [scene]): leaving scene 4
\* clears the countdown interval, entering it sets one
SetScene(n) ==
    /\ scene' = n
    /\ cdInterval' = IF n = scene THEN cdInterval ELSE n = 4
    /\ cdElapsed' = IF n = scene THEN cdElapsed ELSE 0

\* the send-off effect of a mounted EndingScene after the App re-rendered:
\* onRestart is a new function, so the effect cleans up and runs again
TimeoutAfterAppRender == IF esMounted THEN SendoffTimer(status) ELSE timeout

\* the state of a page load: App mounted, its mount effects done
AppInit ==
    /\ esMounted = FALSE
    /\ bgMusic = "paused"
    /\ musicStarted = FALSE
    /\ appMounted = TRUE
    /\ showSplash = TRUE
    /\ deliveryStarted = FALSE
    /\ boxDropped = FALSE
    /\ extraGifts = FALSE
    /\ isMobile = FALSE
    /\ isOpen = FALSE
    /\ hasPlayed = FALSE
    /\ started = FALSE
    /\ scene = 1
    /\ countdown = 5
    /\ spinFinished = FALSE
    /\ sceneTimers = {}
    /\ elapsed = 0
    /\ cdInterval = FALSE
    /\ cdElapsed = 0
    /\ dropTimer = FALSE
    /\ active = TRUE
    /\ flyInterval = TRUE

\* the state once the splash has completed, the box has dropped and the main
\* gift has been opened: EndingScene is mounted and idle
GiftOpened ==
    /\ esMounted = TRUE
    /\ bgMusic \in {"paused", "playing"}
    /\ musicStarted = (bgMusic = "playing")
    /\ appMounted = TRUE
    /\ showSplash = FALSE
    /\ deliveryStarted = TRUE
    /\ boxDropped = TRUE
    /\ extraGifts = TRUE
    /\ isMobile = FALSE
    /\ isOpen = TRUE
    /\ hasPlayed = TRUE
    /\ started = TRUE
    /\ scene = 5
    /\ countdown = 1
    /\ spinFinished = TRUE
    /\ sceneTimers = {}
    /\ elapsed = 0
    /\ cdInterval = FALSE
    /\ cdElapsed = 0
    /\ dropTimer = FALSE
    /\ active = FALSE
    /\ flyInterval = TRUE

\* the state once the splash has completed, the music has started and the
\* box has dropped: the main gift is on the page, closed
BoxDropped ==
    /\ esMounted = FALSE
    /\ bgMusic = "playing"
    /\ musicStarted = TRUE
    /\ appMounted = TRUE
    /\ showSplash = FALSE
    /\ deliveryStarted = TRUE
    /\ boxDropped = TRUE
    /\ extraGifts = FALSE
    /\ isMobile = FALSE
    /\ isOpen = FALSE
    /\ hasPlayed = FALSE
    /\ started = TRUE
    /\ scene = 5
    /\ countdown = 1
    /\ spinFinished = TRUE
    /\ sceneTimers = {}
    /\ elapsed = 0
    /\ cdInterval = FALSE
    /\ cdElapsed = 0
    /\ dropTimer = FALSE
    /\ active = FALSE
    /\ flyInterval = TRUE

\* the page before createRoot(...).render(...): nothing is mounted yet
PageLoading ==
    /\ esMounted = FALSE
    /\ bgMusic = "paused"
    /\ musicStarted = FALSE
    /\ appMounted = FALSE
    /\ showSplash = TRUE
    /\ deliveryStarted = FALSE
    /\ boxDropped = FALSE
    /\ extraGifts = FALSE
    /\ isMobile = FALSE
    /\ isOpen = FALSE
    /\ hasPlayed = FALSE
    /\ started = FALSE
    /\ scene = 1
    /\ countdown = 5
    /\ spinFinished = FALSE
    /\ sceneTimers = {}
    /\ elapsed = 0
    /\ cdInterval = FALSE
    /\ cdElapsed = 0
    /\ dropTimer = FALSE
    /\ active = FALSE
    /\ flyInterval = FALSE

\* how often React runs a mount effect (deps []) of a component rendered
\* inside <StrictMode>: a development build mounts, unmounts and mounts every
\* component again, so the effect runs twice; a production build runs it once
MountEffectRuns(development) == IF development THEN 2 ELSE 1

\* the page loads: main.tsx renders <StrictMode><App /></StrictMode>; every
\* run of the App mount effect calls incrementVisit(), the fly-by interval
\* of BackgroundSanta is set (and cleared and set again by a second run)
LoadPage ==
    /\ ~reloaded /\ ~appMounted /\ ~flyInterval /\ ~started /\ renders = 0
    /\ appMounted' = TRUE
    /\ flyInterval' = TRUE
    /\ \E development \in BOOLEAN :
          pending' = [ pending EXCEPT !["incrementVisit"] =
                                         @ + MountEffectRuns(development) ]
    /\ UNCHANGED << visits, victims, rejected, lastCall >>
    /\ UNCHANGED << showSplash, deliveryStarted, boxDropped, extraGifts, isMobile,
                    isOpen, hasPlayed >>
    /\ UNCHANGED << dropTimer, active >>
    /\ UNCHANGED << endingVars, splashVars >>
    /\ UNCHANGED outsidePage

\* handleStart: the click on the start overlay, and the scene effect
HandleStart ==
    /\ ~reloaded /\ SplashMounted
    /\ ~started
    /\ started' = TRUE
    /\ sceneTimers' = ArmSceneTimers(TRUE)
    /\ elapsed' = 0
    /\ UNCHANGED << scene, countdown, spinFinished, cdInterval, cdElapsed >>
    /\ UNCHANGED << endingVars, counterVars, appVars, sleighVars >>
    /\ UNCHANGED outsidePage

\* one second passes with no splash timer due
SecondPasses ==
    /\ ~reloaded
    /\ sceneTimers # {} \/ cdInterval
    /\ DueTimers = {} /\ ~CountdownDue
    /\ elapsed' = IF sceneTimers # {} THEN elapsed + 1 ELSE elapsed
    /\ cdElapsed' = IF cdInterval THEN cdElapsed + 1 ELSE cdElapsed
    /\ UNCHANGED << started, scene, countdown, spinFinished, sceneTimers, cdInterval >>
    /\ UNCHANGED << endingVars, counterVars, appVars, sleighVars >>
    /\ UNCHANGED outsidePage

\* timer1 (setSpinFinished(true)) or one of the setScene timers fires
SceneTimerFires ==
    /\ ~reloaded
    /\ \E t \in DueTimers \ { "timer5" } :
          /\ sceneTimers' = sceneTimers \ { t }
          /\ IF SplashMounted
             THEN /\ IF t = "timer1"
                     THEN /\ spinFinished' = TRUE
                          /\ UNCHANGED << scene, cdInterval, cdElapsed >>
                     ELSE /\ SetScene(SceneOf(t))
                          /\ UNCHANGED spinFinished
                  /\ UNCHANGED lateCallbacks
             ELSE /\ lateCallbacks < MaxLate
                  /\ lateCallbacks' = lateCallbacks + 1
                  /\ UNCHANGED << scene, spinFinished, cdInterval, cdElapsed >>
    /\ UNCHANGED << started, countdown, elapsed >>
    /\ UNCHANGED << esMounted, status, currentTime, interval, timeout, glitchAudio,
                    errorGlitch, endingBg, bgMusic, musicStarted, downloads, reloaded, fired,
                    finishedCount, startClicks, renders, resolved, ticks >>
    /\ UNCHANGED << counterVars, appVars, sleighVars >>
    /\ UNCHANGED outsidePage

\* a post-splash effect that starts the delivery in the .then of play()
StartDeliveryAfterMusic(ok) == ok

\* the post-splash effect: setDeliveryStarted(true) comes before play()
StartDelivery(ok) == TRUE

\* timer5 fires after timer4: onComplete() is setShowSplash(false); the
\* SplashScreen unmounts, the App effect (deps [showSplash]) starts the
\* delivery and tries the music, SantaSleigh arms the drop timer
SplashComplete ==
    /\ ~reloaded
    /\ "timer5" \in DueTimers /\ "timer4" \notin sceneTimers
    /\ IF SplashMounted
       THEN /\ showSplash' = FALSE
            /\ sceneTimers' = ClearSceneTimers(sceneTimers \ { "timer5" })
            /\ cdInterval' = FALSE
            /\ cdElapsed' = 0
            /\ elapsed' = 0
            /\ \E ok \in BOOLEAN :
                  /\ deliveryStarted' = StartDelivery(ok)
                  /\ bgMusic' = Play(bgMusic, ok)
                  /\ musicStarted' = ok
            /\ dropTimer' = ArmDropTimer(deliveryStarted')
            /\ timeout' = TimeoutAfterAppRender
            /\ UNCHANGED lateCallbacks
       ELSE /\ lateCallbacks < MaxLate
            /\ lateCallbacks' = lateCallbacks + 1
            /\ sceneTimers' = sceneTimers \ { "timer5" }
            /\ UNCHANGED << showSplash, cdInterval, cdElapsed, elapsed, deliveryStarted,
                            dropTimer, bgMusic, musicStarted, timeout >>
    /\ UNCHANGED << started, scene, countdown, spinFinished >>
    /\ UNCHANGED << esMounted, status, currentTime, interval, glitchAudio, errorGlitch,
                    endingBg, downloads, reloaded, fired, finishedCount, startClicks,
                    renders, resolved, ticks >>
    /\ UNCHANGED << appMounted, boxDropped, extraGifts, isMobile, isOpen, hasPlayed >>
    /\ UNCHANGED << active, flyInterval >>
    /\ UNCHANGED counterVars
    /\ UNCHANGED outsidePage

\* an updater without the floor at 0
countdownUpdaterUnfloored(prev) == prev - 1

\* the updater passed to setCountdown: if (prev <= 1) return 0; return prev - 1
countdownUpdater(prev) == IF prev <= 1 THEN 0 ELSE prev - 1

\* the countdown setInterval callback: setCountdown(updater)
CountdownTick ==
    /\ ~reloaded
    /\ CountdownDue
    /\ cdElapsed' = 0
    /\ IF SplashMounted
       THEN /\ countdown' = countdownUpdater(countdown)
            /\ UNCHANGED lateCallbacks
       ELSE /\ lateCallbacks < MaxLate
            /\ lateCallbacks' = lateCallbacks + 1
            /\ UNCHANGED countdown
    /\ UNCHANGED << started, scene, spinFinished, sceneTimers, elapsed, cdInterval >>
    /\ UNCHANGED << esMounted, status, currentTime, interval, timeout, glitchAudio,
                    errorGlitch, endingBg, bgMusic, musicStarted, downloads, reloaded, fired,
                    finishedCount, startClicks, renders, resolved, ticks >>
    /\ UNCHANGED << counterVars, appVars, sleighVars >>
    /\ UNCHANGED outsidePage

\* the 2 s drop timeout fires: onDrop() is setBoxDropped(true); when that
\* changes the state the App re-renders, onDrop is a new function and the
\* SantaSleigh effect arms the timer again
DropTimerFires ==
    /\ ~reloaded
    /\ dropTimer
    /\ IF appMounted
       THEN /\ boxDropped' = TRUE
            /\ dropTimer' = (~boxDropped /\ ArmDropTimer(deliveryStarted))
            /\ timeout' = IF boxDropped THEN timeout ELSE TimeoutAfterAppRender
            /\ UNCHANGED lateCallbacks
       ELSE /\ lateCallbacks < MaxLate
            /\ lateCallbacks' = lateCallbacks + 1
            /\ dropTimer' = FALSE
            /\ UNCHANGED << boxDropped, timeout >>
    /\ UNCHANGED << esMounted, status, currentTime, interval, glitchAudio, errorGlitch,
                    endingBg, bgMusic, musicStarted, downloads, reloaded, fired, finishedCount,
                    startClicks, renders, resolved, ticks >>
    /\ UNCHANGED << appMounted, showSplash, deliveryStarted, extraGifts, isMobile, isOpen,
                    hasPlayed >>
    /\ UNCHANGED << active, flyInterval >>
    /\ UNCHANGED << counterVars, splashVars >>
    /\ UNCHANGED outsidePage

\* the 15 s fly-by setInterval callback: setActive(true)
FlyTick ==
    /\ ~reloaded
    /\ flyInterval
    /\ IF appMounted
       THEN /\ ~active
            /\ active' = TRUE
            /\ UNCHANGED lateCallbacks
       ELSE /\ lateCallbacks < MaxLate
            /\ lateCallbacks' = lateCallbacks + 1
            /\ UNCHANGED active
    /\ UNCHANGED << esMounted, status, currentTime, interval, timeout, glitchAudio,
                    errorGlitch, endingBg, bgMusic, musicStarted, downloads, reloaded, fired,
                    finishedCount, startClicks, renders, resolved, ticks >>
    /\ UNCHANGED << dropTimer, flyInterval >>
    /\ UNCHANGED << counterVars, appVars, splashVars >>
    /\ UNCHANGED outsidePage

\* onAnimationComplete={() => setActive(false)} at the end of a fly-by
AnimationComplete ==
    /\ ~reloaded /\ appMounted
    /\ active
    /\ active' = FALSE
    /\ UNCHANGED << dropTimer, flyInterval >>
    /\ UNCHANGED << endingVars, counterVars, appVars, splashVars >>
    /\ UNCHANGED outsidePage

\* an open effect without the hasPlayedRef guard
OpenEffectUnguarded(open, played) == open

\* the open effect of the main GiftBox (deps [isOpen, onOpen, variant]): a run
\* of the effect invokes onOpen when the box is open and hasPlayedRef is unset
OpenEffect(open, played) == open /\ ~played

\* a click on the dropped main gift: handleClick sets isOpen; the open effect
\* runs when isOpen changed, and again after every re-render of the App (a
\* new onOpen); onOpen is setExtraGifts(true); incrementVictim(), after which
\* the App renders the EndingScene; the click then reaches the window
GiftClick ==
    /\ ~reloaded /\ appMounted /\ ~showSplash
    /\ boxDropped
    /\ isOpen' = TRUE
    /\ handleInteraction(bgMusic)
    /\ LET rendered == musicStarted' # musicStarted
           calls == (~isOpen \/ rendered) /\ OpenEffect(TRUE, hasPlayed)
       IN  /\ hasPlayed' = (hasPlayed \/ calls)
           /\ extraGifts' = (extraGifts \/ calls)
           /\ pending' = [ pending EXCEPT !["incrementVictim"] =
                                              IF calls THEN @ + 1 ELSE @ ]
           /\ esMounted' = (esMounted \/ calls)
           /\ dropTimer' = IF rendered \/ extraGifts' # extraGifts
                           THEN ArmDropTimer(deliveryStarted)
                           ELSE dropTimer
           /\ timeout' = IF rendered THEN TimeoutAfterAppRender ELSE timeout
    /\ UNCHANGED << status, currentTime, interval, glitchAudio, errorGlitch,
                    endingBg, downloads, reloaded, fired, finishedCount,
                    startClicks, renders, lateCallbacks, resolved, ticks >>
    /\ UNCHANGED << appMounted, showSplash, deliveryStarted, boxDropped, isMobile >>
    /\ UNCHANGED << active, flyInterval >>
    /\ UNCHANGED << visits, victims, rejected, lastCall >>
    /\ UNCHANGED splashVars
    /\ UNCHANGED outsidePage

\* a click on the page where nothing else handles it, while the fallback
\* listener is installed
WindowClick ==
    /\ ~reloaded
    /\ FallbackListening
    /\ handleInteraction(bgMusic)
    /\ dropTimer' = DropTimerAfterClick
    /\ timeout' = IF musicStarted' THEN TimeoutAfterAppRender ELSE timeout
    /\ LET calls == musicStarted' /\ OpenEffect(isOpen, hasPlayed)
       IN  /\ hasPlayed' = (hasPlayed \/ calls)
           /\ extraGifts' = (extraGifts \/ calls)
           /\ pending' = [ pending EXCEPT !["incrementVictim"] =
                                              IF calls THEN @ + 1 ELSE @ ]
    /\ UNCHANGED << esMounted, status, currentTime, interval, glitchAudio, errorGlitch,
                    endingBg, downloads, reloaded, fired, finishedCount, startClicks,
                    renders, lateCallbacks, resolved, ticks >>
    /\ UNCHANGED << active, flyInterval >>
    /\ UNCHANGED << appMounted, showSplash, deliveryStarted, boxDropped, isMobile, isOpen >>
    /\ UNCHANGED << visits, victims, rejected, lastCall >>
    /\ UNCHANGED splashVars
    /\ UNCHANGED outsidePage

\* the window is resized across the 768 px mark: setIsMobile changes, the App
\* re-renders and hands new onComplete, onDrop, onOpen and onRestart functions
\* to its children, whose effects clean up and run again
Resize ==
    /\ ~reloaded /\ appMounted
    /\ renders < MaxRenders
    /\ renders' = renders + 1
    /\ isMobile' = ~isMobile
    /\ sceneTimers' = IF showSplash
                      THEN ClearSceneTimers(sceneTimers) \cup ArmSceneTimers(started)
                      ELSE sceneTimers
    /\ elapsed' = IF showSplash THEN 0 ELSE elapsed
    /\ dropTimer' = ArmDropTimer(deliveryStarted)
    /\ timeout' = TimeoutAfterAppRender
    /\ UNCHANGED << started, scene, countdown, spinFinished, cdInterval, cdElapsed >>
    /\ UNCHANGED << esMounted, status, currentTime, interval, glitchAudio, errorGlitch,
                    endingBg, bgMusic, musicStarted, downloads, reloaded, fired, finishedCount,
                    startClicks, lateCallbacks, resolved, ticks >>
    /\ LET calls == OpenEffect(isOpen, hasPlayed)
       IN  /\ hasPlayed' = (hasPlayed \/ calls)
           /\ extraGifts' = (extraGifts \/ calls)
           /\ pending' = [ pending EXCEPT !["incrementVictim"] =
                                              IF calls THEN @ + 1 ELSE @ ]
    /\ UNCHANGED << appMounted, showSplash, deliveryStarted, boxDropped, isOpen >>
    /\ UNCHANGED << active, flyInterval >>
    /\ UNCHANGED << visits, victims, rejected, lastCall >>
    /\ UNCHANGED outsidePage

\* the App unmounts: the effect cleanups of every mounted child run
UnmountApp ==
    /\ ~reloaded /\ appMounted
    /\ appMounted' = FALSE
    /\ sceneTimers' = ClearSceneTimers(sceneTimers)
    /\ elapsed' = IF sceneTimers' = {} THEN 0 ELSE elapsed
    /\ cdInterval' = FALSE
    /\ cdElapsed' = 0
    /\ dropTimer' = FALSE
    /\ flyInterval' = FALSE
    /\ esMounted' = FALSE
    /\ interval' = IF esMounted THEN IntervalsAfterClear(interval) ELSE interval
    /\ timeout' = IF esMounted THEN "none" ELSE timeout
    /\ endingBg' = IF esMounted THEN Pause(endingBg) ELSE endingBg
    /\ errorGlitch' = IF esMounted THEN Pause(errorGlitch) ELSE errorGlitch
    /\ UNCHANGED << started, scene, countdown, spinFinished >>
    /\ UNCHANGED << status, currentTime, glitchAudio, bgMusic, musicStarted, downloads, reloaded, fired,
                    finishedCount, startClicks, renders, lateCallbacks, resolved, ticks >>
    /\ UNCHANGED << showSplash, deliveryStarted, boxDropped, extraGifts, isMobile, isOpen,
                    hasPlayed >>
    /\ UNCHANGED active
    /\ UNCHANGED counterVars
    /\ UNCHANGED outsidePage
AppNext ==
    \/ HandleStart
    \/ SecondPasses
    \/ SceneTimerFires
    \/ SplashComplete
    \/ CountdownTick
    \/ DropTimerFires
    \/ FlyTick
    \/ AnimationComplete
    \/ GiftClick
    \/ WindowClick
    \/ Resize
    \/ UnmountApp
    \/ ClickSeeTheTruth
    \/ Tick
    \/ GlitchEnded
    \/ ErrorGlitchEnded
    \/ DownloadClick
    \/ DownloadDone
    \/ RestartClick
    \/ SendoffTimeout
    \/ RestartTimeout

(***************************************************************************)
(* The timeline engine of EndingScene (the 0.1 s tick, the isTime windows, *)
(* the `Math.abs(currentTime - t) < 0.05` trigger test and the end test)   *)
(* run on the stages and the trigger of a scenario instead of the tables   *)
(* of the component.                                                       *)
(***************************************************************************)
\* the stage durations tried, in seconds
ScenarioDurations == { << 2, 3, 1 >>, << 1, 2, 3 >>, << 3, 2, 1 >> }

\* the trigger offsets tried: 1.5 and 4.5
ScenarioTriggers == { << 49152, 0, 0 >>, << 147456, 0, 0 >> }

RECURSIVE SumFirst(_, _)
\* the sum of the first n durations
SumFirst(d, n) == IF n = 0 THEN 0 ELSE SumFirst(d, n - 1) + d[n]

\* a stage that starts where it ends
StageStartSkewed(d, i) == SumFirst(d, i)

\* stage i starts where stage i - 1 ends: isTime(a, b), isTime(b, c), ...
StageStart(d, i) == SumFirst(d, i - 1)

StageEnd(d, i) == SumFirst(d, i)

\* the stages whose window holds the clock ct
ScenarioStages(d, ct) ==
    { i \in 1 .. Len(d) : InWindow(ct, StageStart(d, i), StageEnd(d, i)) }

\* the trigger test of the timeline effect at a render with clock ct
TriggerFires(ct, t) == IF Near(ct, t) THEN 1 ELSE 0

\* no scenario is run
ScenarioIdle ==
    /\ scDurations = << 2, 3, 1 >>
    /\ scTrigger = << 147456, 0, 0 >>
    /\ scClock = DInt(0)
    /\ scFired = 0
    /\ scStatus = "idle"

\* a scenario run has been started: status 'playing', clock 0, and the
\* timeline effect of that first render has run
ScenarioInit ==
    /\ scDurations \in ScenarioDurations
    /\ scTrigger \in ScenarioTriggers
    /\ scClock = DInt(0)
    /\ scFired = TriggerFires(DInt(0), scTrigger)
    /\ scStatus = "playing"

\* one tick of the scenario run: prev + 0.1, the render and its effect
ScenarioTick ==
    /\ scStatus = "playing"
    /\ \E ct \in { DAdd(scClock, Tenth) } :
          /\ scClock' = ct
          /\ scFired' = scFired + TriggerFires(ct, scTrigger)
          /\ scStatus' = IF DLeq(DInt(SumFirst(scDurations, Len(scDurations))), ct)
                         THEN "finished"
                         ELSE "playing"
    /\ UNCHANGED << scDurations, scTrigger >>
    /\ UNCHANGED << endingVars, counterVars, appVars, splashVars, sleighVars, probeVars,
                    sendoffVars >>

ScenarioNext == ScenarioTick

(***************************************************************************)
(* isTime as a function of the clock: the stage windows rendered for a     *)
(* given clock value.  The clocks tried are the whole seconds 0 .. 92 and  *)
(* the doubles 2^-45 below and above each of them.                         *)
(***************************************************************************)
\* 2^-45, a step every double below 128 can take
Sliver == << 0, 0, 1024 >>

ProbeClocks ==
    { DInt(n) : n \in 0 .. TotalDuration }
    \cup { DAdd(DInt(n), Sliver) : n \in 0 .. TotalDuration }
    \cup { DAbsDiff(DInt(n), Sliver) : n \in 1 .. TotalDuration }

\* the stage windows rendered for the clock ct
StagesAt(ct) ==
    { i \in 1 .. Len(StageWindows) : InWindow(ct, StageWindows[i][1], StageWindows[i][2]) }

ProbeIdle ==
    /\ probeClock = DInt(0)
    /\ probeDone = FALSE
    /\ probeStages = {}

ProbeInit ==
    /\ probeClock \in ProbeClocks
    /\ probeDone = FALSE
    /\ probeStages = {}

\* the render with currentTime = probeClock: every {isTime(a, b) && ...}
Probe ==
    /\ ~probeDone
    /\ probeDone' = TRUE
    /\ probeStages' = StagesAt(probeClock)
    /\ UNCHANGED probeClock
    /\ UNCHANGED << endingVars, counterVars, appVars, splashVars, sleighVars, scenarioVars,
                    sendoffVars >>

ProbeNext == Probe

(***************************************************************************)
(* The send-off timeline of the EndingScene that counts sendoffTime in     *)
(* 0.1 s steps (unnamed/part_003).  onRestart is the App's                 *)
(* window.location.reload(): the reload is asked for by the call and tears *)
(* the page down at some later moment, or at once.                         *)
(***************************************************************************)
\* the double literal 17.5
SendoffEnd == << 573440, 0, 0 >>

\* if (sendoffTime >= 17.5) onRestart(): the calls made by one effect run
RestartsDue(st, t) == IF st = "sendoff" /\ DLeq(SendoffEnd, t) THEN 1 ELSE 0

\* the send-off effect (deps [status, sendoffTime, onRestart]) run after a
\* render with status st and sendoffTime t: the cleanup of the previous run
\* clears its interval, the body sets a new one and tests the end
SendoffEffect(st, t) ==
    /\ vInterval' = IF st = "sendoff" THEN 1 ELSE 0
    /\ restartCalls' = restartCalls + RestartsDue(st, t)

SendoffIdle ==
    /\ vStatus = "idle"
    /\ sendoffTime = DInt(0)
    /\ vInterval = 0
    /\ restartCalls = 0
    /\ vRenders = 0
    /\ vUnloaded = FALSE

\* the run has finished and the roast card is shown
SendoffInit ==
    /\ vStatus = "finished"
    /\ sendoffTime = DInt(0)
    /\ vInterval = 0
    /\ restartCalls = 0
    /\ vRenders = 0
    /\ vUnloaded = FALSE

\* the restart button, or the end of handleDownload: setStatus('sendoff')
SendoffStart ==
    /\ ~vUnloaded
    /\ vStatus = "finished"
    /\ vStatus' = "sendoff"
    /\ SendoffEffect("sendoff", sendoffTime)
    /\ UNCHANGED << sendoffTime, vRenders, vUnloaded >>
    /\ UNCHANGED << endingVars, counterVars, appVars, splashVars, sleighVars, scenarioVars,
                    probeVars >>

\* the setInterval callback setSendoffTime(prev => prev + 0.1), the render
\* it causes and the send-off effect of that render
SendoffTick ==
    /\ ~vUnloaded
    /\ vInterval > 0
    /\ restartCalls < MaxRestarts
    /\ \E t \in { DAdd(sendoffTime, Tenth) } :
          /\ sendoffTime' = t
          /\ SendoffEffect(vStatus, t)
    /\ UNCHANGED << vStatus, vRenders, vUnloaded >>
    /\ UNCHANGED << endingVars, counterVars, appVars, splashVars, sleighVars, scenarioVars,
                    probeVars >>

\* the parent re-renders and passes a new onRestart function: the send-off
\* effect cleans up and runs again
SendoffParentRerender ==
    /\ ~vUnloaded
    /\ vStatus # "idle"
    /\ vRenders < MaxRenders
    /\ restartCalls < MaxRestarts
    /\ vRenders' = vRenders + 1
    /\ SendoffEffect(vStatus, sendoffTime)
    /\ UNCHANGED << vStatus, sendoffTime, vUnloaded >>
    /\ UNCHANGED << endingVars, counterVars, appVars, splashVars, sleighVars, scenarioVars,
                    probeVars >>

\* the reload that onRestart asked for unloads the page: its timers are gone
SendoffUnload ==
    /\ ~vUnloaded
    /\ restartCalls > 0
    /\ vUnloaded' = TRUE
    /\ vInterval' = 0
    /\ UNCHANGED << vStatus, sendoffTime, restartCalls, vRenders >>
    /\ UNCHANGED << endingVars, counterVars, appVars, splashVars, sleighVars, scenarioVars,
                    probeVars >>

SendoffNext ==
    \/ SendoffStart
    \/ SendoffTick
    \/ SendoffParentRerender
    \/ SendoffUnload

NoEngineRun == ScenarioIdle /\ ProbeIdle /\ SendoffIdle

Init == EndingInit /\ CounterInit /\ GiftOpened /\ NoEngineRun

InitApp == EndingInit /\ CounterInit /\ AppInit /\ NoEngineRun

InitScenario == EndingInit /\ CounterInit /\ AppInit /\ ScenarioInit /\ ProbeIdle /\ SendoffIdle

InitProbe == EndingInit /\ CounterInit /\ AppInit /\ ScenarioIdle /\ ProbeInit /\ SendoffIdle

InitSendoff == EndingInit /\ CounterInit /\ AppInit /\ ScenarioIdle /\ ProbeIdle /\ SendoffInit

SpecSendoff == InitSendoff /\ [][SendoffNext]_vars

SpecProbe == InitProbe /\ [][ProbeNext]_vars

SpecScenario == InitScenario /\ [][ScenarioNext]_vars

SpecEnding == Init /\ [][EndingNext]_vars

SpecCounter == Init /\ [][CounterNext]_vars

\* the step of the setInterval callback of a mounted EndingScene, seen on
\* the count of the callbacks run
IntervalFires ==
    /\ ~reloaded /\ esMounted
    /\ interval > 0
    /\ ticks' = ticks + 1

\* a live setInterval timer keeps firing: its callback runs again whenever
\* the interval stays live
SpecEndingFair == Init /\ [][EndingNext]_vars /\ WF_ticks(IntervalFires)

\* the counter client in the page: the calls and their responses, and the
\* click that opens the gift (and calls incrementVictim)
InitStats == EndingInit /\ CounterInit /\ BoxDropped /\ NoEngineRun

StatsNext ==
    \/ CounterNext
    \/ GiftClick

SpecStats == InitStats /\ [][StatsNext]_vars

\* the page from its load to the opening of the main gift: the splash, the
\* sleigh delivery and the clicks, without the operations of the EndingScene
DeliveryNext ==
    \/ HandleStart
    \/ SecondPasses
    \/ SceneTimerFires
    \/ SplashComplete
    \/ CountdownTick
    \/ DropTimerFires
    \/ FlyTick
    \/ AnimationComplete
    \/ GiftClick
    \/ WindowClick
    \/ Resize
    \/ UnmountApp

SpecDelivery == InitApp /\ [][DeliveryNext]_vars

\* the timers of the SplashScreen run when they are due: a second passes, a
\* scene timeout or the countdown interval fires
SplashTimersRun ==
    \/ SecondPasses
    \/ SceneTimerFires
    \/ SplashComplete
    \/ CountdownTick

\* the same page with timers that fire when due; the re-renders of the App
\* are finitely many (at most MaxRenders)
SpecDeliveryFair == InitApp /\ [][DeliveryNext]_vars /\ WF_vars(SplashTimersRun)

SpecApp == InitApp /\ [][AppNext]_vars

\* a page load from the render call of main.tsx on: the mount, the responses
\* to incrementVisit and the splash
InitLoad == EndingInit /\ CounterInit /\ PageLoading /\ NoEngineRun

LoadNext ==
    \/ LoadPage
    \/ CompleteIncrementVisit
    \/ HandleStart
    \/ SecondPasses
    \/ SceneTimerFires
    \/ CountdownTick
    \/ Resize

SpecLoad == InitLoad /\ [][LoadNext]_vars

(***************************************************************************)
(* Properties of the EndingScene timeline.                                 *)
(***************************************************************************)
AfterRun == status \in {"finished", "sendoff", "sendoff2"}

\* C1: in one run of the cinematic every scheduled sound cue (the glitch
\* offsets 0.5 and 4.0 and every offset of textRevealTimes) has its play
\* action invoked exactly once: never more than once at any moment, and
\* exactly once by the time the run has finished, also with parent
\* re-renders in between the ticks.
C1_EachCueOnce ==
    /\ \A i \in Cues : fired[i] <= 1
    /\ finishedCount > 0 => \A i \in Cues : fired[i] = 1

C1_Witness ==
    /\ status = "finished" /\ renders >= 1
    /\ \A i \in Cues : fired[i] = 1

\* C2: every clock value with 0 <= currentTime < 92 lies in exactly one
\* stage window, and with currentTime >= 92 the run has finished and no
\* stage window is active.
C2_Original ==
    /\ DLess(currentTime, DInt(TotalDuration)) => Cardinality(ActiveStages) = 1
    /\ DLeq(DInt(TotalDuration), currentTime) => AfterRun /\ ActiveStages = {}

\* C3: consecutive stage windows isTime(a, b), isTime(c, d) have b = c, and
\* no clock value of a run is inside two stage windows at once.
C3_Contiguous ==
    /\ \A i \in 1 .. (Len(StageWindows) - 1) : StageWindows[i][2] = StageWindows[i + 1][1]
    /\ Cardinality(ActiveStages) <= 1

C3_Witness == status = "playing" /\ ActiveStages = {2}

C5_FrozenAfterStop ==
    [][ (~esMounted \/ status # "playing") =>
          /\ currentTime' = currentTime
          /\ fired' = fired
          /\ lateCallbacks' = lateCallbacks ]_vars

C5_Witness ==
    /\ ~esMounted /\ status = "playing"
    /\ DLess(DInt(1), currentTime) /\ interval = 0

\* C7: after EndingScene has unmounted none of the audio elements it
\* started (ending music, error-glitch, glitch) is still playing.
C7_Original ==
    ~esMounted =>
        /\ endingBg # "playing"
        /\ errorGlitch # "playing"
        /\ glitchAudio # "playing"

\* C8: the transition to 'finished' happens exactly once, at the first tick
\* with currentTime >= 92 (a playing run never holds a clock >= 92, a
\* finished one always does); afterwards currentTime never changes and
\* status never returns to 'idle' or 'playing'.
C8_FinishedOnce ==
    /\ [](finishedCount <= 1)
    /\ [](AfterRun => SequenceEnded(currentTime) /\ finishedCount = 1)
    /\ [](status = "playing" => ~SequenceEnded(currentTime))
    /\ [][ AfterRun => (currentTime' = currentTime /\ AfterRun') ]_vars

C8_Witness == status = "sendoff2" /\ finishedCount = 1 /\ interval = 0

\* the clock of a finished run: 921 rounded additions of 0.1 give
\* 92.09999999999904
ClockAtFinish == AfterRun => currentTime = << 3017932, 838860, 804352 >>

(***************************************************************************)
(* Properties of the counter client.                                       *)
(***************************************************************************)
\* the call fn completes in this step
Completes(fn) == pending'[fn] < pending[fn]

\* the request failed in transport or its body did not parse
TransportOrParseFailure(r) == FetchThrows(r) \/ JsonThrows(r)

\* the response carries a body whose count is absent or not a number
NoNumericCount(r) ==
    /\ r.net = "ok" /\ r.body.kind = "object"
    /\ r.body.count.t # "number"

\* C9: when the fetch of a counter call rejects or its body fails to parse,
\* the call's promise still resolves (no call ever rejects to its caller)
\* and visits and victims keep their values; so a bump of victims answered
\* with 42 followed by a bump that hits a network error leaves 42.
C9_FailOpen ==
    /\ [](rejected = 0)
    /\ [][ \A fn \in CounterCalls :
             ( /\ Completes(fn)
               /\ \/ TransportOrParseFailure(lastCall'.rv)
                  \/ fn = "fetchStats" /\ TransportOrParseFailure(lastCall'.rc) )
             => (visits' = visits /\ victims' = victims) ]_vars

C9_Witness ==
    /\ victims = Num(42)
    /\ lastCall.fn = "incrementVictim" /\ FetchThrows(lastCall.rv)

\* C10: a counter call answered with a body whose count field is absent or
\* not a number leaves the displayed value of that counter unchanged.
C10_Original ==
    [][ /\ (Completes("incrementVisit") /\ NoNumericCount(lastCall'.rv)) => visits' = visits
        /\ (Completes("incrementVictim") /\ NoNumericCount(lastCall'.rv)) => victims' = victims
        /\ (Completes("fetchStats") /\ NoNumericCount(lastCall'.rv)) => visits' = visits
        /\ (Completes("fetchStats") /\ NoNumericCount(lastCall'.rc)) => victims' = victims ]_vars

\* the response arrived with a non-2xx HTTP status
NonSuccess(r) == r.net = "ok" /\ ~ResOk(r)

\* C11: a counter call answered with a non-2xx HTTP status leaves the
\* displayed value of the counter it asked for unchanged, whatever the body
\* holds.
C11_Original ==
    [][ /\ (Completes("incrementVisit") /\ NonSuccess(lastCall'.rv)) => visits' = visits
        /\ (Completes("incrementVictim") /\ NonSuccess(lastCall'.rv)) => victims' = victims
        /\ (Completes("fetchStats") /\ NonSuccess(lastCall'.rv)) => visits' = visits
        /\ (Completes("fetchStats") /\ NonSuccess(lastCall'.rc)) => victims' = victims ]_vars

\* the response is a 2xx whose body carries a non-zero number as count
ValidCount(r) ==
    /\ ResOk(r) /\ r.body.kind = "object"
    /\ r.body.count.t = "number" /\ r.body.count.v # 0

\* C12: in fetchStats the two reads are independent: when the request or the
\* body parse of one counter fails and the response of the other carries a
\* valid count, the other counter's displayed value becomes that count.
C12_Original ==
    [][ Completes("fetchStats") =>
          /\ (TransportOrParseFailure(lastCall'.rv) /\ ValidCount(lastCall'.rc))
                => victims' = lastCall'.rc.body.count
          /\ (TransportOrParseFailure(lastCall'.rc) /\ ValidCount(lastCall'.rv))
                => visits' = lastCall'.rv.body.count ]_vars

(***************************************************************************)
(* Properties of the timers at unmount.                                    *)
(***************************************************************************)
\* C6: once SplashScreen, SantaSleigh, BackgroundSanta or EndingScene is
\* unmounted, none of the timers it scheduled is pending any more (the splash
\* scene timeouts, the countdown interval, the 2 s drop timeout, the 15 s
\* fly-by interval, the send-off timeout, the clock interval), and no timer
\* callback has run after the unmount of its component.
C6_TimersCancelled ==
    /\ lateCallbacks = 0
    /\ ~SplashMounted => sceneTimers = {} /\ ~cdInterval
    /\ ~appMounted => ~dropTimer /\ ~flyInterval
    /\ ~esMounted => timeout = "none" /\ interval = 0

\* the App was unmounted in the middle of the splash countdown, with scene
\* timeouts, the countdown interval and the fly-by interval pending
C6_Witness ==
    /\ ~appMounted /\ showSplash
    /\ started /\ scene = 4 /\ countdown = 3
    /\ sceneTimers = {} /\ ~cdInterval /\ ~flyInterval

(***************************************************************************)
(* Properties of the engine on scenario A: stages of 2, 3 and 1 seconds    *)
(* and one trigger at 4.5.                                                 *)
(***************************************************************************)
ScenarioA == scDurations = << 2, 3, 1 >> /\ scTrigger = << 147456, 0, 0 >>

\* the clock has been advanced from 0 to 4.5
ClockAtTrigger == scClock = << 147456, 0, 0 >>

\* C13 as stated: in scenario A, with the clock advanced from 0 to 4.5 in
\* 0.1 s ticks, the active stage is the third stage and the trigger has
\* fired exactly once.
C13_Original ==
    (ScenarioA /\ ClockAtTrigger) =>
        (ScenarioStages(scDurations, scClock) = {3} /\ scFired = 1)

\* C13 amended: in scenario A, with the clock advanced from 0 to 4.5 in
\* 0.1 s ticks, the active stage is the second stage (2 <= 4.5 < 5) and the
\* trigger has fired exactly once; it has not fired before and does not
\* fire again.
C13_SecondStage ==
    ScenarioA =>
        /\ ClockAtTrigger => (ScenarioStages(scDurations, scClock) = {2} /\ scFired = 1)
        /\ DLess(scClock, scTrigger) => scFired = 0
        /\ DLeq(scTrigger, scClock) => scFired = 1

C13_Witness == ScenarioA /\ ClockAtTrigger /\ scFired = 1 /\ scStatus = "playing"

(***************************************************************************)
(* Properties of isTime at the window boundaries.                          *)
(***************************************************************************)
\* the windows i and i + 1 share the boundary StageWindows[i][2]
SharedBoundaries ==
    { i \in 1 .. (Len(StageWindows) - 1) : StageWindows[i][2] = StageWindows[i + 1][1] }

\* C14: for every boundary b shared by two consecutive stage windows
\* isTime(a, b) and isTime(b, c), a clock exactly equal to b belongs to the
\* later stage only (isTime(b, c) is true, isTime(a, b) is false); the
\* largest clock values below b still belong to the earlier stage.
C14_BoundaryToLater ==
    probeDone =>
        \A i \in SharedBoundaries :
            /\ probeClock = DInt(StageWindows[i][2]) => probeStages = {i + 1}
            /\ probeClock = DAbsDiff(DInt(StageWindows[i][2]), Sliver) => probeStages = {i}

C14_Witness ==
    /\ probeDone /\ probeClock = DInt(StageWindows[10][2])
    /\ probeStages = {11}
    /\ Cardinality(SharedBoundaries) = Len(StageWindows) - 1

(***************************************************************************)
(* Properties of a run whose audio is refused.                             *)
(***************************************************************************)
\* C15: whatever the play() calls of the EndingScene do (the ending music at
\* the start, the glitch and error-glitch cues during the run; any or all of
\* them rejected), the run is not aborted: while it is playing and mounted
\* its interval is live, the tick that makes a play() call can be taken,
\* every tick adds 0.1 to currentTime, and with the interval timer firing
\* the run reaches 'finished' unless it is unmounted.
C15_RunNotAborted ==
    /\ []((status = "playing" /\ esMounted) => interval = 1)
    /\ []((status = "playing" /\ esMounted /\ CueHits(DAdd(currentTime, Tenth)) # {})
            => ENABLED Tick)
    /\ [][ (Tick /\ esMounted /\ status = "playing")
             => currentTime' = DAdd(currentTime, Tenth) ]_vars
    /\ (status = "playing") ~> (AfterRun \/ ~esMounted)

\* a run in which every play() was rejected has finished
C15_Witness ==
    /\ status = "finished" /\ esMounted
    /\ ~resolved /\ endingBg = "paused"
    /\ \A i \in Cues : fired[i] = 1

(***************************************************************************)
(* C16: when the splash screen completes (showSplash becomes false),       *)
(* deliveryStarted becomes true and the drop timer of the sleigh is armed, *)
(* whether the play() of the background music resolves or is rejected; the *)
(* delivery stays started from then on.                                    *)
(***************************************************************************)
C16_DeliveryStarts ==
    /\ [](~showSplash => deliveryStarted)
    /\ [][ (showSplash /\ ~showSplash') => (deliveryStarted' /\ dropTimer') ]_vars

\* the box has dropped although no play() of the background music resolved
C16_Witness ==
    /\ ~showSplash /\ deliveryStarted /\ boxDropped
    /\ ~musicStarted /\ bgMusic = "paused"

(***************************************************************************)
(* C17: in every state in which the EndingScene status is 'playing', the   *)
(* App's background music is not playing.                                  *)
(***************************************************************************)
C17_Original ==
    (esMounted /\ status = "playing") => bgMusic # "playing"

(***************************************************************************)
(* C18: currentTime never decreases from one state to the next; a step     *)
(* that changes it is a tick of the mounted, playing component and adds    *)
(* 0.1 to it; and no step changes it while status is not 'playing'.        *)
(***************************************************************************)
C18_ClockMonotone ==
    [][ /\ DLeq(currentTime, currentTime')
        /\ currentTime' # currentTime =>
              /\ Tick /\ esMounted /\ status = "playing"
              /\ currentTime' = DAdd(currentTime, Tenth)
        /\ status # "playing" => currentTime' = currentTime ]_vars

\* a run whose start was clicked twice has ticked past 50 s and on to its end
C18_Witness ==
    /\ status = "finished" /\ startClicks = 2
    /\ DLess(DInt(50), currentTime)

\* the response has a body with a count field
CarriesCount(r) ==
    /\ r.net = "ok" /\ r.body.kind = "object"
    /\ r.body.count.t # "undefined"

(***************************************************************************)
(* C19: a step that changes visits is the completion of incrementVisit or  *)
(* fetchStats whose response for visits carried a count, and visits        *)
(* becomes that count; likewise victims with incrementVictim or            *)
(* fetchStats; incrementVisit never changes victims, incrementVictim never *)
(* changes visits, and no other step of the page changes either.           *)
(***************************************************************************)
C19_OnlyCountResponses ==
    [][ /\ visits' # visits =>
              /\ Completes("incrementVisit") \/ Completes("fetchStats")
              /\ CarriesCount(lastCall'.rv)
              /\ visits' = lastCall'.rv.body.count
        /\ victims' # victims =>
              /\ Completes("incrementVictim") \/ Completes("fetchStats")
              /\ CarriesCount(lastCall'.rc)
              /\ victims' = lastCall'.rc.body.count
        /\ Completes("incrementVisit") => victims' = victims
        /\ Completes("incrementVictim") => visits' = visits ]_vars

\* the gift was opened and the bump of victims it made was answered with 42;
\* visits is untouched
C19_Witness ==
    /\ isOpen /\ lastCall.fn = "incrementVictim"
    /\ victims = Num(42) /\ visits = Num(0)

(***************************************************************************)
(* C20: in the send-off timeline that counts sendoffTime, onRestart is     *)
(* invoked exactly once, not before sendoffTime has reached 17.5, and      *)
(* sendoffTime does not advance after the call, also when the parent       *)
(* re-renders with a new onRestart function.                               *)
(***************************************************************************)
C20_Original ==
    /\ [](restartCalls <= 1)
    /\ [](restartCalls > 0 => DLeq(SendoffEnd, sendoffTime))
    /\ [][ restartCalls > 0 => sendoffTime' = sendoffTime ]_vars

\* the place of a status in the order idle, playing, finished, sendoff, sendoff2
StatusRank(st) ==
    CASE st = "idle" -> 0
      [] st = "playing" -> 1
      [] st = "finished" -> 2
      [] st = "sendoff" -> 3
      [] st = "sendoff2" -> 4

(***************************************************************************)
(* C21: the EndingScene status only moves forward in the order idle,       *)
(* playing, finished, sendoff, sendoff2: no step takes it to an earlier    *)
(* status.                                                                 *)
(***************************************************************************)
C21_Original ==
    [][ StatusRank(status') >= StatusRank(status) ]_vars

(***************************************************************************)
(* C22: after the start click the scene number of the SplashScreen never   *)
(* decreases, also when the App re-renders and hands the SplashScreen a    *)
(* new onComplete function.                                                *)
(***************************************************************************)
C22_Original ==
    [][ started => scene' >= scene ]_vars

(***************************************************************************)
(* C23: once the user has clicked start, onComplete is eventually invoked  *)
(* and the splash is dismissed (showSplash becomes false) unless the page  *)
(* goes away first, with timers that fire when due and finitely many       *)
(* re-renders of the App; onComplete is invoked at most once per mount:    *)
(* the invocation unmounts the SplashScreen, which never comes back and    *)
(* leaves no scene timer behind.                                           *)
(***************************************************************************)
C23_SplashCompletes ==
    /\ (started /\ appMounted) ~> (~showSplash \/ ~appMounted)
    /\ [](~showSplash => sceneTimers = {})
    /\ [][ ~showSplash => ~showSplash' ]_vars

\* the splash has just been dismissed on a page that was resized once: the
\* delivery has started and the drop timer is pending
C23_Witness ==
    /\ started /\ appMounted /\ ~showSplash
    /\ scene = 5 /\ renders = MaxRenders
    /\ deliveryStarted /\ ~boxDropped /\ dropTimer

(***************************************************************************)
(* C24: before the user clicks start on the SplashScreen no run exists:    *)
(* scene stays 1, spinFinished stays false, countdown stays 5, no scene    *)
(* timer or countdown interval is pending and onComplete has not been      *)
(* invoked (the splash is still shown), however much time passes.          *)
(***************************************************************************)
C24_NoRunBeforeStart ==
    ~started =>
        /\ scene = 1
        /\ ~spinFinished
        /\ countdown = 5
        /\ sceneTimers = {} /\ ~cdInterval
        /\ showSplash

\* the start overlay is still up after the 15 s fly-by interval has fired and
\* the App has re-rendered
C24_Witness ==
    ~started /\ appMounted /\ active /\ renders = MaxRenders

(***************************************************************************)
(* C25: the onOpen of the main GiftBox (setExtraGifts(true) and            *)
(* incrementVictim()) is invoked at most once per mount, for any number of *)
(* clicks on the box and of re-renders that pass a new onOpen.  On the     *)
(* page before any response arrives, pending.incrementVictim is the number *)
(* of invocations of onOpen: it is 1 when the gift has been opened and 0   *)
(* before.                                                                 *)
(***************************************************************************)
C25_OnOpenOnce ==
    /\ pending["incrementVictim"] <= 1
    /\ pending["incrementVictim"] = (IF isOpen THEN 1 ELSE 0)
    /\ extraGifts = isOpen

\* the gift is open on a page that has re-rendered, with the fallback listener
\* still installed for further clicks
C25_Witness ==
    /\ isOpen /\ hasPlayed /\ extraGifts
    /\ pending["incrementVictim"] = 1
    /\ renders = MaxRenders /\ FallbackListening

(***************************************************************************)
(* C26: incrementVisit is called exactly once per load of the application: *)
(* the step that mounts the App, rendered inside StrictMode as main.tsx    *)
(* does, issues exactly one request to visits/up.                          *)
(***************************************************************************)
C26_Original ==
    [][ (~appMounted /\ appMounted') =>
            pending'["incrementVisit"] = pending["incrementVisit"] + 1 ]_vars

(***************************************************************************)
(* C27: the phases of the App happen in a fixed order and never revert:    *)
(* extraGifts implies boxDropped, boxDropped implies deliveryStarted,      *)
(* deliveryStarted implies that showSplash is false, and none of the four  *)
(* flags goes back; incrementVictim has been called and the EndingScene is *)
(* on the page (so that it can be started) only after the main gift has    *)
(* been opened.                                                            *)
(***************************************************************************)
C27_PhaseOrder ==
    /\ [](/\ extraGifts => boxDropped
          /\ boxDropped => deliveryStarted
          /\ deliveryStarted => ~showSplash
          /\ pending["incrementVictim"] > 0 => isOpen
          /\ esMounted => isOpen)
    /\ [][ /\ extraGifts => extraGifts'
           /\ boxDropped => boxDropped'
           /\ deliveryStarted => deliveryStarted'
           /\ ~showSplash => ~showSplash' ]_vars

\* the last phase: the gift is open, the extra gifts are out, the victim
\* call is in flight and the EndingScene offers its start button
C27_Witness ==
    /\ ~showSplash /\ deliveryStarted /\ boxDropped /\ isOpen /\ extraGifts
    /\ pending["incrementVictim"] = 1
    /\ StartButtonRendered

\* a step in which the drop timeout fires and calls onDrop although the box
\* has dropped already: a pending drop timer goes away while the App stays
\* mounted (the first call leaves a timer pending: its re-render arms one)
onDropAgain == boxDropped /\ dropTimer /\ ~dropTimer' /\ appMounted'

(***************************************************************************)
(* C28: after start has become true the SantaSleigh invokes onDrop exactly *)
(* once, whatever re-renders of the App hand it a new onDrop: once the box *)
(* has dropped, onDrop is not invoked again.                               *)
(***************************************************************************)
C28_Original ==
    [][ ~onDropAgain ]_vars

\* a step made by a click of the user on the page of the opened gift
UserClick ==
    \/ ClickSeeTheTruth
    \/ DownloadClick
    \/ RestartClick

(***************************************************************************)
(* C29: after the splash the background music is started again only by a   *)
(* click of the user made while the splash is gone and musicStarted is     *)
(* false, never by a timer or a completion; the click that succeeds sets   *)
(* musicStarted, and once musicStarted is true it stays true and no later  *)
(* click starts the music again.                                           *)
(***************************************************************************)
C29_RetryOnlyOnClick ==
    [][ /\ (bgMusic' = "playing" /\ bgMusic # "playing") \/ musicStarted' # musicStarted
           => /\ ~showSplash /\ ~musicStarted
              /\ musicStarted' /\ bgMusic' = "playing"
              /\ UserClick
        /\ musicStarted => musicStarted' ]_vars

\* the music was started by the click on 'See The Truth' and further clicks
\* have taken the EndingScene to the send-off
C29_Witness ==
    /\ musicStarted /\ bgMusic = "playing"
    /\ status = "sendoff" /\ finishedCount > 0

(***************************************************************************)
(* C30: the countdown of the SplashScreen is an integer from 0 to 5 in     *)
(* every reachable state; it never increases, a step that changes it takes *)
(* it down by exactly 1, happens while scene is 4 and is the tick of the   *)
(* interval, a full second after the previous tick or the start of the     *)
(* interval.                                                               *)
(***************************************************************************)
C30_CountdownRange ==
    /\ [](countdown \in 0..5)
    /\ [][ /\ countdown' <= countdown
           /\ countdown' # countdown =>
                 /\ countdown' = countdown - 1
                 /\ scene = 4 /\ cdInterval
                 /\ cdElapsed >= 1 /\ cdElapsed' = 0 ]_vars

\* the countdown has come down to 0 while scene 4 is still shown, after a
\* re-render restarted the scenes
C30_Witness ==
    started /\ showSplash /\ scene = 4 /\ countdown = 0 /\ renders = MaxRenders

====
